---- MODULE Spec2Model ----
(***************************************************************************)
(* One accepted connection of the web server: the HTTP session with its    *)
(* pipelining queue (http_session.cc, custom_queue.h, pending_request.h),  *)
(* the WebSocket session it may upgrade to (websocket_session.cc) and the  *)
(* executor on which both post their deferred work.                        *)
(*                                                                         *)
(* The connection is driven from one thread: a handler runs to its end     *)
(* before the next one starts, and the executor runs posted work in the    *)
(* order it was posted.  An action is one such handler, with every call it *)
(* makes.  Handlers are written as functions from a state record           *)
(* [http, ws, executor] to a state record, composed in the order of the    *)
(* statements of the code.                                                 *)
(***************************************************************************)
EXTENDS Integers, Sequences, FiniteSets, TLC

\* http_session::queue::LIMIT
LIMIT == 8

\* largest request_queue_limit_ explored for the configurable queue
MaxLimit == 2
\* number of requests the peer sends on the connection
MaxReq == 2
\* number of calls of websocket_session::send
MaxSend == 2
\* number of times a request handler calls respond again
MaxAgain == 1

VARIABLES
  conf,      \* what the session was constructed with
  http,      \* the http_session object and its transport
  ws,        \* the websocket_session object, once created
  executor   \* work posted with boost::asio::post, oldest first

vars == <<conf, http, ws, executor>>

----------------------------------------------------------------------------
(* Values *)

\* queue_entry::work_ / pending_request::response_ when empty
NoWork == [status |-> "none", need_eof |-> FALSE]

\* the responses a handler can hand to the respond callback: any status,
\* with or without "Connection: close" (message::need_eof)
Responses == [status : {"ok"}, need_eof : BOOLEAN]

\* not_found_response: status not_found, keep_alive taken from the request
not_found_response(keep_alive) == [status |-> "404", need_eof |-> ~keep_alive]

\* queue_entry::is_finished / pending_request::is_finished
is_finished(entry) == entry.work # NoWork

St == [http |-> http, ws |-> ws, executor |-> executor]

Set(s) ==
  /\ http' = s.http
  /\ ws' = s.ws
  /\ executor' = s.executor
  /\ UNCHANGED conf

\* boost::asio::post on the stream's executor
post(s, task) == [s EXCEPT !.executor = Append(@, task)]

Task(t) == [t |-> t, id |-> 0, ec |-> FALSE, is_ssl |-> FALSE]

----------------------------------------------------------------------------
(* The pipelining queue *)

\* is_full with the comparison off by one
is_full_above(s) == Len(s.http.items_) > conf.limit_

\* queue::is_full
is_full(s) == Len(s.http.items_) >= conf.limit_

\* work_impl::send / response_impl::send: async_write of the message, with
\* on_write bound to its need_eof.  A write started after the send side was
\* shut down, or on the stream that release_stream left behind, cannot
\* succeed.
send(s, entry) ==
  [s EXCEPT !.http.writes = @ + 1,
            !.http.write_close = entry.work.need_eof,
            !.http.write_doomed = (s.http.stream # "open"),
            !.http.write_barrier = Len(s.executor),
            !.http.written = Append(@, entry.id)]

\* queue::send_next
send_next(s) ==
  IF s.http.items_ = <<>> \/ ~is_finished(Head(s.http.items_))
  THEN s
  ELSE send([s EXCEPT !.http.write_active_ = TRUE], Head(s.http.items_))

\* send_next_response without the write_active_ test
send_next_response_unguarded(s) == send_next(s)

\* http_session::send_next_response
send_next_response(s) ==
  IF s.http.write_active_ THEN s ELSE send_next(s)

\* queue::add_entry (handled: was the entry's respond callback given to the
\* request handler, and is_ssl: with which security flag)
add_entry(s, id) ==
  [s EXCEPT !.http.items_ =
              Append(@, [id |-> id, work |-> NoWork, handled |-> FALSE,
                         is_ssl |-> FALSE])]

\* queue::on_write: the state after the erase (the returned was_full is
\* is_full of the state before)
queue_on_write(s) == [s EXCEPT !.http.items_ = Tail(@)]

\* position of the entry of request id in items_ (0: not there)
Pos(s, id) ==
  LET hit == {i \in 1..Len(s.http.items_) : s.http.items_[i].id = id}
  IN IF hit = {} THEN 0 ELSE CHOOSE i \in hit : TRUE

\* queue_entry::operator() of http_session::queue: the work item is stored
\* and send_next_response is called
queue_entry_call(s, i, res) ==
  send_next_response([s EXCEPT !.http.items_[i].work = res])

\* pending_request::operator(): the response is stored and
\* send_next_response is posted
pending_request_call(s, i, res) ==
  post([s EXCEPT !.http.items_[i].work = res], Task("send_next_response"))

\* the respond callback handed to the request handler: it calls the entry
\* on_read has added for the request
respond(s, id, res) ==
  IF conf.impl = "fixed"
  THEN queue_entry_call(s, Pos(s, id), res)
  ELSE pending_request_call(s, Pos(s, id), res)

----------------------------------------------------------------------------
(* The HTTP session *)

\* plain_http_session::is_ssl
plain_is_ssl == FALSE

\* ssl_http_session::is_ssl
ssl_is_ssl == TRUE

\* derived().is_ssl()
is_ssl == IF conf.is_ssl THEN ssl_is_ssl ELSE plain_is_ssl

\* do_read that leaves the timer of the stream as it is
do_read_unarmed(s) ==
  [s EXCEPT !.http.reads = @ + 1,
            !.http.read_barrier = Len(s.executor)]

\* http_session::do_read: new parser, timeout re-armed (expires_after),
\* async_read
do_read(s) ==
  [s EXCEPT !.http.deadline = "armed",
            !.http.reads = @ + 1,
            !.http.read_barrier = Len(s.executor)]

\* fail(ec, what): the error is reported
fail(s, what) == [s EXCEPT !.http.fails = @ \cup {what}]

\* plain_http_session::do_eof: shutdown_send on the socket
plain_do_eof(s) == [s EXCEPT !.http.stream = "shutdown"]

\* ssl_http_session::do_eof: timeout set, async_shutdown of the TLS stream
ssl_do_eof(s) ==
  [s EXCEPT !.http.deadline = "armed",
            !.http.stream = "shutdown", !.http.shutdowns = @ + 1]

\* derived().do_eof()
do_eof(s) == IF conf.is_ssl THEN ssl_do_eof(s) ELSE plain_do_eof(s)

\* websocket_session::do_accept: async_accept of the upgrade request
do_accept(s) == [s EXCEPT !.ws.accepts = @ + 1]

\* the upgrade of on_read: the timeout is disabled (expires_never), the
\* stream is released and make_websocket_session creates the session object
\* on it and runs it
make_websocket_session(s) ==
  do_accept([s EXCEPT !.http.deadline = "never",
                      !.http.stream = "released",
                      !.ws.state = "alive",
                      !.ws.req = s.http.nreq,
                      !.ws.is_ssl = conf.is_ssl])

\* a dispatch that reads on whatever the size of the queue
dispatch_always_read(s, id, handler, sync, res, keep_alive) ==
  LET a == [add_entry(s, id) EXCEPT
              !.http.items_[Len(s.http.items_) + 1].handled = handler,
              !.http.items_[Len(s.http.items_) + 1].is_ssl =
                 handler /\ is_ssl]
      b == IF handler
           THEN IF sync THEN respond(a, id, res) ELSE a
           ELSE respond(a, id, not_found_response(keep_alive))
  IN do_read(b)

\* a dispatch that leaves the request unanswered when no handler is set
dispatch_without_default(s, id, handler, sync, res, keep_alive) ==
  LET a == [add_entry(s, id) EXCEPT
              !.http.items_[Len(s.http.items_) + 1].handled = handler,
              !.http.items_[Len(s.http.items_) + 1].is_ssl =
                 handler /\ is_ssl]
      b == IF handler /\ sync THEN respond(a, id, res) ELSE a
  IN IF ~is_full(b) THEN do_read(b) ELSE b

\* http_session::on_read for a request that is not an upgrade; the handler
\* is called with the request, the respond callback and derived().is_ssl().
\*   handler: is http_req_cb_ set;  sync: does the handler respond before it
\*   returns, and with res;  keep_alive: of the request
dispatch(s, id, handler, sync, res, keep_alive) ==
  LET a == [add_entry(s, id) EXCEPT
              !.http.items_[Len(s.http.items_) + 1].handled = handler,
              !.http.items_[Len(s.http.items_) + 1].is_ssl =
                 handler /\ is_ssl]
      b == IF handler
           THEN IF sync THEN respond(a, id, res) ELSE a
           ELSE respond(a, id, not_found_response(keep_alive))
  IN IF ~is_full(b) THEN do_read(b) ELSE b

\* the upgrade made whatever the predicate says
upgrade_unasked(s, id, ok, keep_alive) == make_websocket_session(s)

\* the upgrade branch of on_read in the session built on
\* web_server_settings: the upgrade is made if ws_upgrade_ok_ is not set or
\* says yes; if it says no, a not found response to the request goes
\* through the queue as the response of an ordinary request does
upgrade(s, id, ok, keep_alive) ==
  IF ok
  THEN make_websocket_session(s)
  ELSE LET a == add_entry(s, id)
           b == respond(a, id, not_found_response(keep_alive))
       IN IF ~is_full(b) THEN do_read(b) ELSE b

\* http_session::on_read
\*   kind: what the read completed with (a timeout of the stream completes
\*   the read with an error code like any other);  ok: the upgrade
\*   predicate's answer (declined remembers the requests it said no to, seen
\*   whether a read ended in the end of the stream or in the timeout)
on_read(s, kind, ok, handler, sync, res, keep_alive) ==
  LET r  == [s EXCEPT !.http.reads = @ - 1,
                      !.http.seen = IF kind \in {"eof", "timeout"}
                                    THEN @ \cup {kind} ELSE @]
      id == s.http.nreq + 1
      q  == [r EXCEPT !.http.nreq = id,
                      !.http.declined = IF kind = "upgrade" /\ ~ok
                                        THEN @ \cup {id} ELSE @]
  IN CASE kind = "eof"     -> do_eof(r)
       [] kind = "error"   -> fail(r, "read")
       [] kind = "timeout" -> fail(r, "read")
       [] kind = "upgrade" -> upgrade(q, id, ok, keep_alive)
       [] OTHER -> dispatch(q, id, handler, sync, res, keep_alive)

\* an on_write that asks whether the queue is full after the head has left it
on_write_full_after(s, ec) ==
  LET a == [s EXCEPT !.http.writes = @ - 1,
                     !.http.write_active_ = FALSE]
      b == queue_on_write(a)
  IN IF ec THEN fail(a, "write")
     ELSE IF s.http.write_close
       THEN do_eof([a EXCEPT !.http.seen = @ \cup {"close"}])
     ELSE IF is_full(b) THEN do_read(b)
     ELSE b

\* http_session::on_write (seen remembers that a response asking for closure
\* was written)
on_write(s, ec) ==
  LET a == [s EXCEPT !.http.writes = @ - 1,
                     !.http.write_active_ = FALSE]
  IN IF ec THEN fail(a, "write")
     ELSE IF s.http.write_close
       THEN do_eof([a EXCEPT !.http.seen = @ \cup {"close"}])
     ELSE IF is_full(a) THEN do_read(queue_on_write(a))
     ELSE queue_on_write(a)

\* ssl_http_session::on_handshake
on_handshake(s, ec) ==
  IF ec THEN fail([s EXCEPT !.http.stream = "dead"], "handshake")
  ELSE do_read([s EXCEPT !.http.stream = "open"])

\* ssl_http_session::on_shutdown
on_shutdown(s, ec) ==
  LET a == [s EXCEPT !.http.shutdowns = @ - 1]
  IN IF ec THEN fail(a, "shutdown") ELSE a

----------------------------------------------------------------------------
(* The WebSocket session *)

\* the owners, had the write completion lambda not captured self
use_count_without_writes(s) ==
  s.ws.accepts + s.ws.reads
    + Cardinality({i \in 1..Len(s.executor) : s.executor[i].t = "ws_open"})

\* owners of the session's shared_ptr: a pending async_accept, async_read or
\* async_write handler (each binds shared_from_this) and a posted open
\* notification (it captures self).  The posted send callbacks capture only
\* cb, ec and bytes_transferred.
use_count(s) ==
  s.ws.accepts + s.ws.reads + Len(s.ws.writing)
    + Cardinality({i \in 1..Len(s.executor) : s.executor[i].t = "ws_open"})

\* websocket_session::~websocket_session, run when the last owner lets go
destroy(s) ==
  IF s.ws.state = "alive" /\ use_count(s) = 0
  THEN [s EXCEPT !.ws.state = "destroyed", !.ws.closes = @ + 1]
  ELSE s

\* fail(ec, what) of the WebSocket session
ws_fail(s, what) == [s EXCEPT !.ws.fails = @ \cup {what}]

\* a read whose completion does not wait for the handlers posted before it
ws_do_read_overtaking(s) ==
  [s EXCEPT !.ws.reads = @ + 1, !.ws.read_barrier = 0]

\* websocket_session::do_read
ws_do_read(s) ==
  [s EXCEPT !.ws.reads = @ + 1, !.ws.read_barrier = Len(s.executor)]

\* send_next without the send_active_ test
ws_send_next_unguarded(s) ==
  IF s.ws.send_queue_ = <<>>
  THEN s
  ELSE [s EXCEPT !.ws.send_queue_ = Tail(@),
                 !.ws.send_active_ = TRUE,
                 !.ws.writing = Append(@, Head(s.ws.send_queue_)),
                 !.ws.frames = Append(@, Head(s.ws.send_queue_))]

\* websocket_session::send_next
ws_send_next(s) ==
  IF s.ws.send_active_ \/ s.ws.send_queue_ = <<>>
  THEN s
  ELSE [s EXCEPT !.ws.send_queue_ = Tail(@),
                 !.ws.send_active_ = TRUE,
                 !.ws.writing = Append(@, Head(s.ws.send_queue_)),
                 !.ws.frames = Append(@, Head(s.ws.send_queue_))]

\* websocket_session::send
ws_send(s) ==
  LET id == s.ws.nsend + 1
  IN ws_send_next([s EXCEPT !.ws.nsend = id,
                            !.ws.send_queue_ = Append(@, id)])

\* the completion lambda without its call of send_next
ws_write_done_without_next(s, ec) ==
  LET id == Head(s.ws.writing)
      a  == [s EXCEPT !.ws.writing = Tail(@), !.ws.send_active_ = FALSE,
                      !.ws.write_errors = IF ec THEN @ \cup {id} ELSE @]
  IN post(a, [t |-> "send_cb", id |-> id, ec |-> ec, is_ssl |-> FALSE])

\* the completion lambda calling the callback itself, before anything else
ws_write_done_callback_first(s, ec) ==
  LET id == Head(s.ws.writing)
      a  == [s EXCEPT !.ws.cbs = Append(@, id)]
      b  == [a EXCEPT !.ws.writing = Tail(@), !.ws.send_active_ = FALSE]
  IN ws_send_next(b)

\* the completion lambda of async_write in websocket_session::send_next
\*   (write_errors: the writes that completed with an error and whose
\*   callback has not been called yet)
ws_write_done(s, ec) ==
  LET id == Head(s.ws.writing)
      a  == [s EXCEPT !.ws.writing = Tail(@), !.ws.send_active_ = FALSE,
                      !.ws.write_errors = IF ec THEN @ \cup {id} ELSE @]
      b  == ws_send_next(a)
  IN post(b, [t |-> "send_cb", id |-> id, ec |-> ec, is_ssl |-> FALSE])

\* on_accept that posts the open notification before it looks at ec
on_accept_notify_first(s, ec) ==
  LET a == post([s EXCEPT !.ws.accepts = @ - 1],
                [t |-> "ws_open", id |-> s.ws.req, ec |-> FALSE,
                 is_ssl |-> FALSE])
  IN IF ec
     THEN ws_fail([a EXCEPT !.ws.handshake = "failed"], "accept")
     ELSE ws_do_read([a EXCEPT !.ws.handshake = "ok"])

\* on_accept that starts no read
on_accept_without_read(s, ec) ==
  LET a == [s EXCEPT !.ws.accepts = @ - 1]
  IN IF ec
     THEN ws_fail([a EXCEPT !.ws.handshake = "failed"], "accept")
     ELSE post([a EXCEPT !.ws.handshake = "ok"],
               [t |-> "ws_open", id |-> s.ws.req, ec |-> FALSE,
                is_ssl |-> FALSE])

\* websocket_session::on_accept; the target bound by do_accept is that of the
\* upgrade request (ws.req), and the posted call of ws_open_cb_ has target
\* and the literal false as its arguments
on_accept(s, ec) ==
  LET a == [s EXCEPT !.ws.accepts = @ - 1]
  IN IF ec
     THEN ws_fail([a EXCEPT !.ws.handshake = "failed"], "accept")
     ELSE ws_do_read(post([a EXCEPT !.ws.handshake = "ok"],
                          [t |-> "ws_open", id |-> s.ws.req, ec |-> FALSE,
                           is_ssl |-> FALSE]))

\* on_read that reads again after a failed read
ws_on_read_retry(s, kind, reply) ==
  LET a == [s EXCEPT !.ws.reads = @ - 1,
                     !.ws.buffer_ = IF kind = "message" THEN 1 ELSE @]
      b == [a EXCEPT !.ws.known = TRUE]
      c == IF reply THEN ws_send(b) ELSE b
  IN CASE kind = "closed" -> a
       [] kind = "error"  -> ws_do_read(ws_fail(a, "read"))
       [] OTHER           -> ws_do_read([c EXCEPT !.ws.buffer_ = 0])

\* websocket_session::on_read
\*   kind: the read completed with the close of the session, with an error,
\*   or with a message, which is then in buffer_;  reply: the message
\*   observer calls send on the session it was handed
ws_on_read(s, kind, reply) ==
  LET a == [s EXCEPT !.ws.reads = @ - 1,
                     !.ws.buffer_ = IF kind = "message" THEN 1 ELSE @]
      b == [a EXCEPT !.ws.known = TRUE]
      c == IF reply THEN ws_send(b) ELSE b
  IN CASE kind = "closed" -> a
       [] kind = "error"  -> ws_fail(a, "read")
       [] OTHER           -> ws_do_read([c EXCEPT !.ws.buffer_ = 0])

----------------------------------------------------------------------------
(* The executor *)

Dec(n) == IF n > 0 THEN n - 1 ELSE 0

\* the oldest posted handler is taken off the executor; the handlers of the
\* operations started after it was posted come one place nearer
pop(s) ==
  [s EXCEPT !.executor = Tail(@),
            !.http.write_barrier = Dec(@),
            !.http.read_barrier = Dec(@),
            !.ws.read_barrier = Dec(@)]

\* the posted handler itself (the send callback is called with the ec the
\* handler was posted with)
\*   again: a send callback calls send on the session (it can lock the
\*   weak pointer only while the session exists)
run_task(s, again) ==
  LET task == Head(s.executor)
      a    == pop(s)
  IN CASE task.t = "send_next_response" -> send_next_response(a)
       [] task.t = "ws_open" ->
            [a EXCEPT !.ws.opens = @ + 1, !.ws.known = TRUE,
                      !.ws.open_target = task.id,
                      !.ws.open_is_ssl = task.is_ssl]
       [] OTHER ->
            LET b == [a EXCEPT !.ws.cbs = Append(@, task.id),
                               !.ws.write_errors = @ \ {task.id}]
            IN IF again /\ b.ws.state = "alive" THEN ws_send(b) ELSE b

----------------------------------------------------------------------------
(* Initial state: make_http_session(...)->run() has returned *)

Confs ==
  {[impl |-> "fixed", limit_ |-> LIMIT, is_ssl |-> b] : b \in BOOLEAN}
    \cup {[impl |-> "settings", limit_ |-> l, is_ssl |-> b] :
            l \in 0..MaxLimit, b \in BOOLEAN}

Http0 ==
  [stream |-> "open", deadline |-> "never", seen |-> {},
   items_ |-> <<>>, write_active_ |-> FALSE,
   reads |-> 0, read_barrier |-> 0,
   writes |-> 0, write_close |-> FALSE, write_doomed |-> FALSE,
   write_barrier |-> 0, shutdowns |-> 0,
   nreq |-> 0, again |-> 0, declined |-> {}, written |-> <<>>, fails |-> {}]

Ws0 ==
  [state |-> "none", req |-> 0, is_ssl |-> FALSE, handshake |-> "none",
   accepts |-> 0, reads |-> 0, read_barrier |-> 0, buffer_ |-> 0,
   writing |-> <<>>, send_active_ |-> FALSE, send_queue_ |-> <<>>,
   nsend |-> 0, frames |-> <<>>, write_errors |-> {},
   cbs |-> <<>>,
   opens |-> 0, open_target |-> 0, open_is_ssl |-> FALSE,
   closes |-> 0, known |-> FALSE, fails |-> {}]

\* plain_http_session::run / ssl_http_session::run
run(s, ssl) ==
  IF ssl
  THEN [s EXCEPT !.http.deadline = "armed", !.http.stream = "handshake"]
  ELSE do_read(s)

Init ==
  /\ conf \in Confs
  /\ LET s == run([http |-> Http0, ws |-> Ws0, executor |-> <<>>], conf.is_ssl)
     IN /\ http = s.http
        /\ ws = s.ws
        /\ executor = s.executor

----------------------------------------------------------------------------
(* Actions: one per completion handler, posted handler and external call *)

\* the TLS handshake completes
Handshake ==
  /\ http.stream = "handshake"
  /\ \E ec \in BOOLEAN : Set(on_handshake(St, ec))

\* a read of the HTTP session completes without a request: the peer has
\* closed, the read failed, or the armed timer of the stream ran out
ReadEnd ==
  /\ http.reads > 0
  /\ http.read_barrier = 0
  /\ \E kind \in {"eof", "error", "timeout"} :
       /\ kind = "timeout" => http.deadline = "armed"
       /\ Set(on_read(St, kind, TRUE, TRUE, FALSE, NoWork, TRUE))

\* a read completes with an ordinary request
ReadRequest ==
  /\ http.reads > 0
  /\ http.read_barrier = 0
  /\ http.nreq < MaxReq
  /\ \E handler \in BOOLEAN, keep_alive \in BOOLEAN :
       \/ /\ handler
          /\ keep_alive
          /\ Set(on_read(St, "request", TRUE, TRUE, FALSE, NoWork, TRUE))
       \/ /\ handler
          /\ keep_alive
          /\ \E res \in Responses :
               Set(on_read(St, "request", TRUE, TRUE, TRUE, res, TRUE))
       \/ /\ ~handler
          /\ Set(on_read(St, "request", TRUE, FALSE, FALSE, NoWork, keep_alive))

\* a read completes with a WebSocket upgrade request; only the session
\* built on web_server_settings has an upgrade predicate to ask
ReadUpgrade ==
  /\ http.reads > 0
  /\ http.read_barrier = 0
  /\ http.nreq < MaxReq
  /\ \E ok \in (IF conf.impl = "fixed" THEN {TRUE} ELSE BOOLEAN),
        keep_alive \in BOOLEAN :
       /\ ok => keep_alive
       /\ Set(on_read(St, "upgrade", ok, TRUE, FALSE, NoWork, keep_alive))

\* the request handler calls respond for a request it was handed earlier
Respond ==
  \E i \in 1..Len(http.items_), res \in Responses :
    /\ ~is_finished(http.items_[i])
    /\ Set(respond(St, http.items_[i].id, res))

\* the write of a response completes
WriteDone ==
  /\ http.writes > 0
  /\ http.write_barrier = 0
  /\ \E ec \in BOOLEAN :
       /\ http.write_doomed => ec
       /\ Set(on_write(St, ec))

\* the TLS shutdown completes
ShutdownDone ==
  /\ http.shutdowns > 0
  /\ \E ec \in BOOLEAN : Set(on_shutdown(St, ec))

\* the executor runs the oldest posted handler
RunTask ==
  /\ executor # <<>>
  /\ \E again \in BOOLEAN :
       /\ again => /\ Head(executor).t = "send_cb"
                   /\ ws.state = "alive"
                   /\ ws.nsend < MaxSend
       /\ Set(destroy(run_task(St, again)))

\* the WebSocket handshake completes
Accept ==
  /\ ws.accepts > 0
  /\ \E ec \in BOOLEAN : Set(destroy(on_accept(St, ec)))

\* a WebSocket read completes
WsRead ==
  /\ ws.reads > 0
  /\ ws.read_barrier = 0
  /\ \E kind \in {"closed", "error", "message"}, reply \in BOOLEAN :
       /\ reply => kind = "message" /\ ws.nsend < MaxSend
       /\ Set(destroy(ws_on_read(St, kind, reply)))

\* somebody the session was handed to calls send
Send ==
  /\ ws.state = "alive"
  /\ ws.known
  /\ ws.nsend < MaxSend
  /\ Set(destroy(ws_send(St)))

\* a WebSocket frame write completes
WsWriteDone ==
  /\ ws.writing # <<>>
  /\ \E ec \in BOOLEAN : Set(destroy(ws_write_done(St, ec)))

Next ==
  \/ Handshake
  \/ ReadEnd
  \/ ReadRequest
  \/ ReadUpgrade
  \/ Respond
  \/ WriteDone
  \/ ShutdownDone
  \/ RunTask
  \/ Accept
  \/ WsRead
  \/ Send
  \/ WsWriteDone

Spec == Init /\ [][Next]_vars

\* the request handler calls respond a second time, for a request whose
\* entry is still in the queue with its response: the same callback, so the
\* same queue_entry::operator() / pending_request::operator(), runs again.
\* Left out, because there the call has undefined behaviour: the entry whose
\* response is being written (the assignment destroys the message the write
\* in flight reads) and the entry that was dequeued (the callback's reference
\* to it dangles).
RespondAgain ==
  /\ http.again < MaxAgain
  /\ \E i \in 1..Len(http.items_), res \in Responses :
       /\ is_finished(http.items_[i])
       /\ http.items_[i].handled
       /\ ~(i = 1 /\ http.writes > 0)
       /\ Set(respond([St EXCEPT !.http.again = @ + 1],
                      http.items_[i].id, res))

NextMisuse ==
  \/ Next
  \/ RespondAgain

\* the program with a request handler that breaks the contract of respond
SpecMisuse == Init /\ [][NextMisuse]_vars

----------------------------------------------------------------------------
(* Properties of the HTTP session *)

Items == http.items_
Ids(seq) == {seq[i] : i \in 1..Len(seq)}

\* nothing went wrong so far: no reported error, transport open in both
\* directions, and no response in the queue asks for the connection to close
Clean ==
  /\ http.fails = {}
  /\ http.stream = "open"
  /\ \A i \in 1..Len(Items) : ~Items[i].work.need_eof

\* every dispatched request was answered by its handler and nothing is left
\* that could start a write: no write in flight, no posted handler
Settled ==
  /\ \A i \in 1..Len(Items) : is_finished(Items[i])
  /\ http.writes = 0
  /\ executor = <<>>

\* C1: when the handler has completed all pipelined requests, in whatever
\* order, with every write succeeding and no response requiring closure, all
\* responses get written, and they are written in arrival order 1..N.  Once
\* the session has settled nothing more will be written, so by then the
\* queue must be empty.
C1_AllWrittenInOrder ==
  Clean =>
    /\ \A i \in 1..Len(http.written) : http.written[i] = i
    /\ Settled => Items = <<>>

\* C2: the writes that were started, in the order they were started, are a
\* prefix of the arrival order of the exchanges: the k-th started write is
\* the write of the k-th exchange.
C2_StartedWritesArePrefix ==
  \A k \in 1..Len(http.written) : http.written[k] = k

\* C3: the HTTP session never has more than one read and never more than one
\* write in flight.
C3_OneReadOneWrite ==
  /\ http.reads <= 1
  /\ http.writes <= 1

\* a read and a write in flight at once, with a second exchange waiting
C3_Witness ==
  /\ http.reads = 1
  /\ http.writes = 1
  /\ Len(Items) >= 2

Unfinished == {i \in 1..Len(Items) : ~is_finished(Items[i])}

\* C4 as stated, for capacities of at least one: once C requests are
\* dispatched and none completed no read is in flight; and once exactly one
\* of them has been completed and the session has settled on that, exactly
\* one read is in flight.
C4_AnyCompletionResumesRead ==
  (conf.limit_ >= 1 /\ http.nreq = conf.limit_ /\ Clean
     /\ http.declined = {}) =>
    /\ (Len(Items) = conf.limit_ /\ Cardinality(Unfinished) = conf.limit_)
         => http.reads = 0
    /\ (Cardinality(Unfinished) = conf.limit_ - 1
          /\ http.writes = 0 /\ executor = <<>>)
         => http.reads = 1

AtCapacity == Len(Items) >= 1 /\ Len(Items) >= conf.limit_

\* C4, amended: while the queue holds exchanges and is at capacity no read
\* is in flight; a handler completion never starts a read; the one step that
\* starts a read with the queue at capacity is the completion of the write
\* of the head response, successful and not requiring closure, which
\* dequeues the head and starts exactly one read.
C4_ReadResumesOnDequeue ==
  [][ /\ (Len(http'.items_) >= 1 /\ Len(http'.items_) >= conf.limit_)
           => http'.reads = 0
      /\ (AtCapacity /\ http'.reads # http.reads)
           => /\ http.writes = 1 /\ http'.writes = 0
              /\ ~http.write_close
              /\ http'.items_ = Tail(Items)
              /\ http.reads = 0 /\ http'.reads = 1
      /\ (AtCapacity /\ Len(http'.items_) < Len(Items))
           => http'.reads = 1
    ]_vars

\* a read resumed by the dequeue of the first of two pipelined exchanges
C4_Witness ==
  /\ conf.limit_ = 2
  /\ http.nreq = 2
  /\ Len(http.written) = 1
  /\ Len(Items) = 1
  /\ http.reads = 1

\* C5: the queue never holds more exchanges than its capacity, whatever
\* capacity it was constructed with, and is_full is size >= capacity.
C5_SizeWithinCapacity ==
  /\ Len(Items) <= conf.limit_
  /\ is_full(St) <=> Len(Items) >= conf.limit_

\* C6 as stated: an accepted upgrade request gets no HTTP response, and the
\* open notification has fired exactly once by the time the WebSocket
\* session is over.
C6_OpenExactlyOnce ==
  ws.state # "none" =>
    /\ ws.req \notin Ids(http.written)
    /\ ws.opens <= 1
    /\ ws.state = "destroyed" => ws.opens = 1

OpenPosted == \E i \in 1..Len(executor) : executor[i].t = "ws_open"

\* C6, amended: an accepted upgrade request gets no Pending Exchange and no
\* HTTP response; the open notification fires at most once: never before the
\* handshake has succeeded, never if it failed, and exactly once as soon as
\* the notification posted by the successful handshake has run.
C6_OpenOnceAfterHandshake ==
  ws.state # "none" =>
    /\ ws.req \notin Ids(http.written)
    /\ \A i \in 1..Len(Items) : Items[i].id # ws.req
    /\ ws.opens <= 1
    /\ ws.handshake # "ok" => ws.opens = 0 /\ ~OpenPosted
    /\ ws.handshake = "ok" => (ws.opens = 1 <=> ~OpenPosted)

\* the open notification has fired for an upgrade that followed a request
C6_Witness ==
  /\ ws.opens = 1
  /\ ws.req = 2

----------------------------------------------------------------------------
(* Properties of the WebSocket session *)

RECURSIVE CallbackIds(_)
\* the sends whose completion callback is posted and has not run yet
CallbackIds(tasks) ==
  IF tasks = <<>> THEN <<>>
  ELSE IF Head(tasks).t = "send_cb"
       THEN <<Head(tasks).id>> \o CallbackIds(Tail(tasks))
       ELSE CallbackIds(Tail(tasks))

\* C8: the frames written are the payloads sent so far, in the order of the
\* calls of send, less those still queued, and a queued payload has a frame
\* write ahead of it; the completion callbacks run, once each, in the order
\* of the frames: those that have run, those posted and the frame in flight
\* make up the frames written.
C8_FramesAndCallbacksInOrder ==
  /\ ws.frames \o ws.send_queue_ = [i \in 1..ws.nsend |-> i]
  /\ ws.cbs \o CallbackIds(executor) \o ws.writing = ws.frames
  /\ ws.send_queue_ # <<>> => ws.writing # <<>>

\* two sends, both written and both called back
C8_Witness ==
  /\ ws.cbs = <<1, 2>>
  /\ ws.fails = {}

\* C9: at most one frame write is in flight, and send_active_ is true
\* exactly while one is.
C9_OneFrameInFlight ==
  /\ Len(ws.writing) <= 1
  /\ ws.send_active_ <=> Len(ws.writing) = 1

\* a send made after a completion callback has run is being written
C9_Witness ==
  /\ ws.cbs # <<>>
  /\ ws.send_active_

\* C10: the close observer fires once, when the session is over and not
\* before: not while a handshake, a read or a frame write of the session is
\* pending, and as soon as none is and no open notification is posted.
C10_CloseOnce ==
  /\ ws.closes <= 1
  /\ ws.closes = 1 <=> ws.state = "destroyed"
  /\ ws.state = "destroyed" =>
       ws.accepts = 0 /\ ws.reads = 0 /\ ws.writing = <<>>
  /\ ws.state = "alive" =>
       ws.accepts > 0 \/ ws.reads > 0 \/ ws.writing # <<>> \/ OpenPosted

\* the session is over after a read error that followed a frame write
C10_Witness ==
  /\ ws.closes = 1
  /\ ws.frames # <<>>
  /\ "read" \in ws.fails

\* C11: every read of the HTTP session is in flight with the timeout of the
\* stream armed; and a read that ends in the timeout is handled as a failed
\* read: the failure is reported as a read failure, the request that never
\* came is not dispatched and gets no exchange in the queue, nothing is
\* written for it, and no read is in flight ever after.
C11_ReadTimeout ==
  [][ /\ http.reads > 0 => http.deadline = "armed"
      /\ http'.reads > 0 => http'.deadline = "armed"
      /\ "timeout" \in http'.seen =>
           /\ http'.reads = 0
           /\ "read" \in http'.fails
      /\ ("timeout" \notin http.seen /\ "timeout" \in http'.seen) =>
           /\ http.reads = 1
           /\ http'.items_ = http.items_
           /\ http'.nreq = http.nreq
           /\ http'.written = http.written ]_vars

\* a read timed out while an earlier request was still with its handler
C11_Witness ==
  /\ "timeout" \in http.seen
  /\ Unfinished # {}
  /\ http.nreq >= 1

\* C12: once a read or a write of the HTTP session has failed, no step
\* starts a read, dispatches a request or starts a write.
C12_ErrorIsTerminal ==
  [][ (http.fails \cap {"read", "write"} # {}) =>
        /\ http'.reads <= http.reads
        /\ http'.nreq = http.nreq
        /\ Len(http'.written) = Len(http.written) ]_vars

\* C13: once the write of a response that asked for closure has completed
\* with success, no step starts a read, dispatches a request or starts a
\* write.
C13_ClosedAfterCloseResponse ==
  [][ "close" \in http.seen =>
        /\ http'.reads <= http.reads
        /\ http'.nreq = http.nreq
        /\ Len(http'.written) = Len(http.written) ]_vars

\* C14: the step that dequeues the head after its successful write, with a
\* ready response now at the head, leaves the write of that response in
\* flight.
C14_NextHeadWritten ==
  [][ (Items # <<>> /\ http'.items_ = Tail(Items)
         /\ http'.items_ # <<>> /\ is_finished(Head(http'.items_)))
        => http'.writes = 1 ]_vars

\* C15: no exchange has the write of its response started twice.
C15_WrittenAtMostOnce ==
  \A i, j \in 1..Len(http.written) :
    i # j => http.written[i] # http.written[j]

\* C16: a step that completes a write either leaves the queue and the reads
\* alone (the write failed or its response asked for closure, and the queue
\* is not told), or removes exactly the head, keeps the rest in its order,
\* and starts a read exactly when the queue held at least as many exchanges
\* as its capacity before the removal; a successful write that did not ask
\* for closure always does the latter, and nothing else removes an exchange.
C16_DequeueAndResume ==
  [][ /\ http'.writes < http.writes =>
           \/ /\ http.write_close \/ "write" \in http'.fails
              /\ http'.items_ = Items
              /\ http'.reads = http.reads
           \/ /\ ~http.write_close
              /\ Items # <<>>
              /\ http'.items_ = Tail(Items)
              /\ http'.reads =
                   http.reads + (IF Len(Items) >= conf.limit_ THEN 1 ELSE 0)
      /\ Len(http'.items_) < Len(Items) => http'.writes < http.writes ]_vars

\* with capacity one: the first exchange was written and dequeued from the
\* full queue, the read that this resumed brought the second request
C16_Witness ==
  /\ conf.limit_ = 1
  /\ http.written = <<1>>
  /\ Len(Items) = 1
  /\ Items[1].id = 2
  /\ http.fails = {}

\* C17: the step that dispatches a request leaves a read in flight exactly
\* when the queue, the new exchange included, is below capacity; and with
\* the queue at capacity only a step that dequeues starts a read.
C17_ReadAfterDispatch ==
  [][ /\ (http'.nreq = http.nreq + 1 /\ Len(http'.items_) = Len(Items) + 1)
           => /\ http.reads = 1
              /\ http'.reads =
                   (IF Len(http'.items_) < conf.limit_ THEN 1 ELSE 0)
      /\ (AtCapacity /\ http'.reads > http.reads)
           => Len(http'.items_) < Len(Items) ]_vars

\* a request is with its handler and the next read is already in flight
C17_Witness ==
  /\ http.nreq = 1
  /\ Unfinished = {1}
  /\ http.reads = 1
  /\ Len(Items) < conf.limit_
  /\ Clean

\* C18: a request that was not given to a handler (and is not a declined
\* upgrade) has an exchange in the queue from the step that read it, at the
\* tail, behind the exchanges that were there, and completed with the not
\* found response; and every write that is started is of the response at
\* the head of the queue, so the exchanges are in arrival order.
C18_NoHandlerNotFound ==
  [][ /\ \A i \in 1..Len(http'.items_) :
           (~http'.items_[i].handled /\ http'.items_[i].id \notin http'.declined)
             => http'.items_[i].work.status = "404"
      /\ (http'.nreq = http.nreq + 1 /\ ws'.state = ws.state)
           => /\ Len(http'.items_) = Len(Items) + 1
              /\ http'.items_[Len(Items) + 1].id = http'.nreq
              /\ \A i \in 1..Len(Items) : http'.items_[i] = Items[i]
      /\ \A i, j \in 1..Len(http'.items_) :
           i < j => http'.items_[i].id < http'.items_[j].id
      /\ Len(http'.written) > Len(http.written)
           => /\ http'.items_ # <<>>
              /\ http'.written =
                   Append(http.written, Head(http'.items_).id) ]_vars

\* the second request found no handler: its not found response waits,
\* unwritten, behind the first request, which is still with its handler
C18_Witness ==
  /\ Len(Items) = 2
  /\ ~is_finished(Items[1])
  /\ ~Items[2].handled
  /\ Items[2].id \notin http.declined
  /\ Items[2].work.status = "404"
  /\ http.written = <<>>

\* C19: the step in which a read ends in the end of the stream shuts the
\* transport down, reports no error, dispatches nothing and adds no exchange;
\* and from then on no read is in flight and no step starts a write.
C19_EndOfStream ==
  [][ /\ ("eof" \notin http.seen /\ "eof" \in http'.seen)
           => /\ http'.stream = "shutdown"
              /\ http'.fails = http.fails
              /\ http'.nreq = http.nreq
              /\ http'.items_ = Items
      /\ "eof" \in http.seen
           => /\ http'.reads = 0
              /\ http'.nreq = http.nreq
              /\ Len(http'.written) = Len(http.written) ]_vars

\* C20: once the upgrade has handed the transport to the WebSocket session,
\* the HTTP session has no read in flight, dispatches nothing and no step
\* starts a write of the HTTP session.
C20_EndedByUpgrade ==
  [][ ws.state # "none"
        => /\ http'.reads = 0
           /\ http'.nreq = http.nreq
           /\ Len(http'.written) = Len(http.written) ]_vars

\* C21: after a failed handshake the error is reported, the open observer
\* has not been and will not be notified, no read is in flight and no
\* message was delivered; after a successful handshake exactly one open
\* notification is posted or has run, it carries the target of the upgrade
\* request, and the first read is in flight while the notification waits;
\* no read is in flight unless the handshake succeeded.
C21_HandshakeOutcome ==
  /\ ws.handshake = "failed" =>
       /\ "accept" \in ws.fails
       /\ ws.opens = 0 /\ ~OpenPosted
       /\ ws.reads = 0 /\ ~ws.known
  /\ ws.handshake = "ok" =>
       /\ ws.opens
            + Cardinality({i \in 1..Len(executor) : executor[i].t = "ws_open"})
            = 1
       /\ \A i \in 1..Len(executor) :
            executor[i].t = "ws_open" => executor[i].id = ws.req
       /\ ws.opens = 1 => ws.open_target = ws.req
       /\ OpenPosted => ws.reads = 1
  /\ ws.reads > 0 => ws.handshake = "ok"

\* the open observer was told the target of the upgrade request, the
\* second request of the connection, and the read loop is running
C21_Witness ==
  /\ ws.handshake = "ok"
  /\ ws.opens = 1
  /\ ws.req = 2
  /\ ws.open_target = 2
  /\ ws.reads = 1

\* C22: the WebSocket session never has two reads in flight; a read is
\* started from no read in flight only by the successful handshake; the step
\* that delivers the first message leaves the buffer empty and the next read
\* in flight; the step that ends the loop (close or failed read) delivers no
\* message, sends nothing and starts no read, and after a failed read no
\* read is in flight.
C22_ReadsNeverOverlap ==
  [][ /\ ws.reads <= 1 /\ ws'.reads <= 1
      /\ ws'.reads = 1 => ws'.buffer_ = 0
      /\ (ws.reads = 0 /\ ws'.reads = 1)
           => ws.handshake = "none" /\ ws'.handshake = "ok"
      /\ (~ws.known /\ ws'.known /\ ws'.opens = ws.opens)
           => ws.reads = 1 /\ ws'.reads = 1
      /\ (ws.reads = 1 /\ ws'.reads = 0)
           => /\ ws'.known = ws.known
              /\ ws'.nsend = ws.nsend
              /\ ws'.frames = ws.frames
      /\ "read" \in ws'.fails => ws'.reads = 0 ]_vars

\* the read loop ended in a failed read after the session had been handed
\* out and a payload was sent on it
C22_Witness ==
  /\ "read" \in ws.fails
  /\ ws.known
  /\ ws.nsend >= 1
  /\ ws.reads = 0

\* C23: the step in which a frame write completes with an error (the step
\* that posts the send callback with that error) starts no frame write.
C23_WriteErrorEndsSession ==
  [][ (Len(executor') = Len(executor) + 1
         /\ executor'[Len(executor')].t = "send_cb"
         /\ executor'[Len(executor')].ec)
        => ws'.frames = ws.frames ]_vars

\* C24: the step that completes a frame write does not run the callback: it
\* posts it, with the outcome of that write, behind whatever is posted
\* already, and by the end of the step the in-flight flag is cleared and set
\* again exactly if a payload was queued, whose write is then started; the
\* callbacks run later, as posted handlers, each after its write completed.
C24_CallbackAfterBookkeeping ==
  [][ /\ (ws.writing # <<>> /\ ws'.writing # ws.writing)
           => /\ ws'.cbs = ws.cbs
              /\ Len(executor') = Len(executor) + 1
              /\ SubSeq(executor', 1, Len(executor)) = executor
              /\ executor'[Len(executor')] =
                   [t |-> "send_cb", id |-> Head(ws.writing),
                    ec |-> Head(ws.writing) \in ws'.write_errors,
                    is_ssl |-> FALSE]
              /\ ws'.send_active_ = (ws.send_queue_ # <<>>)
              /\ ws'.writing = (IF ws.send_queue_ = <<>> THEN <<>>
                                ELSE <<Head(ws.send_queue_)>>)
              /\ ws'.frames = (IF ws.send_queue_ = <<>> THEN ws.frames
                               ELSE Append(ws.frames, Head(ws.send_queue_)))
      /\ ws'.cbs # ws.cbs
           => /\ executor # <<>>
              /\ Head(executor).t = "send_cb"
              /\ ws'.cbs = Append(ws.cbs, Head(executor).id)
              /\ Head(executor).id \notin Ids(ws'.writing)
              /\ Head(executor).ec = (Head(executor).id \in ws.write_errors)
    ]_vars

\* the callback of the first send has run and the frame of the second send
\* is in flight
C24_Witness ==
  /\ ws.cbs = <<1>>
  /\ ws.writing = <<2>>
  /\ ws.frames = <<1, 2>>
  /\ ws.send_active_

\* C25: a step in which respond is called again for an exchange that is
\* completed already leaves the queue and the stored responses as they are,
\* starts no write and posts nothing that could start one.
C25_SecondCompletionFailsFast ==
  [][ http'.again # http.again
        => /\ http'.items_ = Items
           /\ http'.written = http.written
           /\ executor' = executor ]_vars

\* C26: the security flag handed to the request handler with a request, and
\* the one handed to the open observer of the WebSocket session, say whether
\* the transport of the connection is the secured one.
C26_SecurityFlag ==
  /\ \A i \in 1..Len(Items) :
       Items[i].handled => Items[i].is_ssl = conf.is_ssl
  /\ ws.opens = 1 => ws.open_is_ssl = ws.is_ssl

\* C27: after a successful handshake, whenever the session has been handed
\* to an observer (a message was delivered, or the open observer ran) or the
\* close observer has fired, the open observer has run.
C27_OpenFirst ==
  (ws.handshake = "ok" /\ (ws.known \/ ws.closes = 1)) => ws.opens = 1

\* a session that was opened, took a payload to send and was closed
C27_Witness ==
  /\ ws.handshake = "ok"
  /\ ws.opens = 1
  /\ ws.nsend >= 1
  /\ ws.closes = 1

\* C28: when the close observer has fired, no completion callback of a send
\* is still posted: every send whose frame write completed has had its
\* callback called.
C28_CallbacksBeforeClose ==
  ws.closes = 1 =>
    /\ CallbackIds(executor) = <<>>
    /\ ws.cbs \o ws.writing = ws.frames

====
